---- MODULE Spec2Model ----
(***************************************************************************)
(* Model of the thread pool (os_threadpool.c) and of the parallel graph    *)
(* traversal built on it (parallel.c).                                     *)
(*                                                                         *)
(* Thread 0 is the main thread; threads 1..num_threads are the workers     *)
(* started by create_threadpool.  Every pthread_mutex_lock is a step of    *)
(* its own (it is where a thread can block); the code between a lock and   *)
(* the next lock, unlock or pthread_cond_wait is one step.                 *)
(***************************************************************************)
EXTENDS Integers, Sequences, FiniteSets, TLC

\* Bounds of the model.
MaxThreads == 2
MaxNodes == 3
MaxEdges == 3

VARIABLES
    graph,        \* os_graph_t: num_nodes, neighbours[], info[]
    visited,      \* graph->visited[]
    sum,          \* static int sum
    num_threads,  \* tp->num_threads
    queue,        \* the list at tp->head, from head.next to head.prev
    num_tasks,    \* tp->num_tasks (far from the limits of unsigned int here)
    finished,     \* tp->finished
    mutex_queue,  \* owner of tp->mutex_queue
    cond_queue,   \* threads blocked in pthread_cond_wait(&tp->cond_queue)
    mutex_graph,  \* owner of mutex_graph
    pc,           \* position of every thread
    t,            \* t of thread_loop_function: the task a worker holds
    new_task,     \* the task a thread is about to enqueue
    i,            \* loop index of process_node
    join_i,       \* loop index of wait_for_completion
    num_created,  \* number of tasks create_task has allocated
    hist,         \* per task: how often it was enqueued, dequeued, run, destroyed, and when
    adds,         \* per node: how often its value was added to sum
    num_enqueued, \* number of tasks enqueue_task has linked
    own           \* per thread: the tasks it enqueued in the action it ran last

vars == <<graph, visited, sum, num_threads, queue, num_tasks, finished,
          mutex_queue, cond_queue, mutex_graph, pc, t, new_task, i, join_i,
          num_created, hist, adds, num_enqueued, own>>

Main == 0
NoThread == -1
Workers == 1..num_threads
Threads == 0..num_threads

NoTask == [id |-> 0, argument |-> -1]
\* What list_entry(tp->head.prev) yields on an empty list: not a task.
Garbage == [id |-> -1, argument |-> -1]

Nodes == 0..(graph.num_nodes - 1)

RECURSIVE SetToSeq(_)
SetToSeq(S) ==
    IF S = {} THEN <<>>
    ELSE LET m == CHOOSE x \in S : \A y \in S : x <= y
         IN <<m>> \o SetToSeq(S \ {m})

\* The graphs the traversal is run on: up to MaxNodes nodes, up to MaxEdges
\* edges, node n carrying the value 2^n (distinct sets of nodes have
\* distinct totals).
Graphs(maxn) ==
    { [num_nodes |-> n,
       neighbours |-> [u \in 0..(n-1) |-> SetToSeq({v \in 0..(n-1) : <<u, v>> \in E})],
       info |-> [u \in 0..(n-1) |-> 2 ^ u]] :
      n \in 1..maxn,
      E \in { F \in SUBSET ((0..(maxn-1)) \X (0..(maxn-1))) : Cardinality(F) <= MaxEdges } }

\* main up to the call of create_threadpool, and create_threadpool: the graph
\* is loaded, sum is 0, no node is visited, the pool is empty and its threads
\* are started.
InitFor(graphs, thread_counts) ==
    /\ graph \in graphs
    /\ visited = [u \in 0..(graph.num_nodes - 1) |-> "NOT_VISITED"]
    /\ sum = 0
    /\ num_threads \in thread_counts
    /\ queue = <<>>
    /\ num_tasks = 0
    /\ finished = FALSE
    /\ mutex_queue = NoThread
    /\ cond_queue = {}
    /\ mutex_graph = NoThread
    /\ pc = [th \in 0..num_threads |-> IF th = Main THEN "main_seed" ELSE "dq_lock"]
    /\ t = [th \in 0..num_threads |-> NoTask]
    /\ new_task = [th \in 0..num_threads |-> NoTask]
    /\ i = [th \in 0..num_threads |-> 0]
    /\ join_i = 0
    /\ num_created = 0
    /\ hist = <<>>
    /\ adds = [u \in 0..(graph.num_nodes - 1) |-> 0]
    /\ num_enqueued = 0
    /\ own = [th \in 0..num_threads |-> {}]

Init == InitFor(Graphs(MaxNodes), 1..MaxThreads)

\* A pool of one worker: no dequeue_task runs between two enqueue_task calls
\* of the worker.  One node more than in Init, so that a node can have three
\* neighbours.
InitLifo == InitFor(Graphs(MaxNodes + 1), {1})

----------------------------------------------------------------------------
\* os_threadpool.c

\* The record kept of a task: its argument, the node whose processing created
\* it (-1: main), the number of times it was enqueued, dequeued, executed and
\* destroyed, and its rank among the tasks enqueued (seq).
NewHist(arg, from) ==
    [arg |-> arg, parent |-> from, enq |-> 0, deq |-> 0, exec |-> 0, destr |-> 0,
     seq |-> 0]

\* create_task: a freshly allocated task carrying arg.
create_task(arg) == [id |-> num_created + 1, argument |-> arg]

Bump(h, id, field) ==
    IF id \in DOMAIN h THEN [h EXCEPT ![id][field] = @ + 1] ELSE h

\* Faulty enqueue_task: the task is linked at head.next.
enqueue_list_front(q, tk) == <<tk>> \o q

\* enqueue_task, lines 47-50: the task is linked at head.prev.
enqueue_list(q, tk) == Append(q, tk)

\* pthread_cond_broadcast: every thread blocked on the condition variable
\* leaves the wait and goes on to re-acquire the mutex.
cond_broadcast(p, waiters) ==
    [x \in DOMAIN p |-> IF x \in waiters THEN "dq_relock" ELSE p[x]]

\* queue_is_empty: list_empty(&tp->head).
queue_is_empty(q) == q = <<>>

\* Faulty dequeue_task: the wait loop does not test finished.
dequeue_wait_ignores_finished(q, fin) == queue_is_empty(q)

\* dequeue_task, line 83: the condition of the wait loop.
dequeue_must_wait(q, fin) == queue_is_empty(q) /\ ~fin

\* Faulty dequeue_task: NULL is returned as soon as finished is set.
dequeue_no_task_if_finished(q, n, fin) == fin

\* Faulty dequeue_task: num_tasks is not tested before it is decremented.
dequeue_no_task_never(q, n, fin) == FALSE

\* Faulty dequeue_task: NULL is also returned to a worker that finds finished
\* set, whatever the queue holds.
dequeue_no_task_or_finished(q, n, fin) == n <= 0 \/ fin

\* dequeue_task, line 88: the test that makes dequeue_task return NULL.
dequeue_no_task(q, n, fin) == n <= 0

\* Faulty dequeue_task: the task returned is the one at head.next.
list_head_entry(q) == IF q = <<>> THEN Garbage ELSE q[1]

\* dequeue_task, line 97: list_entry(tp->head.prev, os_task_t, list).
list_tail(q) == IF q = <<>> THEN Garbage ELSE q[Len(q)]

\* Faulty dequeue_task: the task returned stays linked.
list_del_tail_keep(q) == q

\* dequeue_task, line 98: list_del(tp->head.prev).
list_del_tail(q) == IF q = <<>> THEN q ELSE SubSeq(q, 1, Len(q) - 1)

\* Faulty dequeue_task: the task is returned with the mutex still locked.
dequeue_keeps_lock(th) == th

\* dequeue_task, line 101: the unlock before the task is returned.
dequeue_unlock(th) == NoThread

\* Faulty dequeue_task: the worker waits with the mutex still locked.
cond_wait_keeps_mutex(th) == th

\* dequeue_task, line 84: pthread_cond_wait releases the mutex while the
\* worker is blocked.
cond_wait_unlock(th) == NoThread

\* Faulty wait_for_completion: the thread is not waited for.
join_returns_at_once(p, k) == TRUE

\* pthread_join(tp->threads[k - 1]) returns once that thread has returned
\* from thread_loop_function.
join_returns(p, k) == p[k] = "exit"

\* enqueue_task, line 42.
EnqueueLock(th) ==
    /\ pc[th] = "enq_lock"
    /\ mutex_queue = NoThread
    /\ mutex_queue' = th
    /\ pc' = [pc EXCEPT ![th] = "enq_body"]
    /\ UNCHANGED <<graph, visited, sum, num_threads, queue, num_tasks, finished,
                   cond_queue, mutex_graph, t, new_task, i, join_i,
                   num_created, hist, adds, num_enqueued, own>>

\* enqueue_task, lines 44-56, and the return to the caller: main goes on to
\* wait_for_completion, process_node to the next iteration of its loop.
EnqueueBody(th) ==
    /\ pc[th] = "enq_body"
    /\ num_tasks' = num_tasks + 1
    /\ queue' = enqueue_list(queue, new_task[th])
    /\ pc' = [cond_broadcast(pc, cond_queue) EXCEPT
                 ![th] = IF th = Main THEN "wfc_lock" ELSE "pn_loop"]
    /\ cond_queue' = {}
    /\ mutex_queue' = NoThread
    /\ i' = [i EXCEPT ![th] = IF th = Main THEN @ ELSE @ + 1]
    /\ num_enqueued' = num_enqueued + 1
    /\ hist' = [Bump(hist, new_task[th].id, "enq") EXCEPT
                   ![new_task[th].id].seq = num_enqueued + 1]
    /\ new_task' = [new_task EXCEPT ![th] = NoTask]
    /\ own' = [own EXCEPT ![th] = IF th = Main THEN @ ELSE @ \cup {new_task[th].id}]
    /\ UNCHANGED <<graph, visited, sum, num_threads, finished, mutex_graph,
                   t, join_i, num_created, adds>>

\* dequeue_task, line 80.
DequeueLock(w) ==
    /\ pc[w] = "dq_lock"
    /\ mutex_queue = NoThread
    /\ mutex_queue' = w
    /\ pc' = [pc EXCEPT ![w] = "dq_check"]
    /\ UNCHANGED <<graph, visited, sum, num_threads, queue, num_tasks, finished,
                   cond_queue, mutex_graph, t, new_task, i, join_i,
                   num_created, hist, adds, num_enqueued, own>>

\* dequeue_task, lines 83-85: the loop condition holds, pthread_cond_wait
\* releases the mutex and blocks the worker.
DequeueWait(w) ==
    /\ pc[w] = "dq_check"
    /\ dequeue_must_wait(queue, finished)
    /\ cond_queue' = cond_queue \cup {w}
    /\ mutex_queue' = cond_wait_unlock(w)
    /\ pc' = [pc EXCEPT ![w] = "dq_wait"]
    /\ UNCHANGED <<graph, visited, sum, num_threads, queue, num_tasks, finished,
                   mutex_graph, t, new_task, i, join_i,
                   num_created, hist, adds, num_enqueued, own>>

\* pthread_cond_wait may return without a broadcast (spurious wake-up).
SpuriousWakeup(w) ==
    /\ pc[w] = "dq_wait"
    /\ w \in cond_queue
    /\ cond_queue' = cond_queue \ {w}
    /\ pc' = [pc EXCEPT ![w] = "dq_relock"]
    /\ UNCHANGED <<graph, visited, sum, num_threads, queue, num_tasks, finished,
                   mutex_queue, mutex_graph, t, new_task, i, join_i,
                   num_created, hist, adds, num_enqueued, own>>

\* pthread_cond_wait re-acquires the mutex before it returns; the loop
\* condition of line 83 is evaluated again.
CondWaitRelock(w) ==
    /\ pc[w] = "dq_relock"
    /\ mutex_queue = NoThread
    /\ mutex_queue' = w
    /\ pc' = [pc EXCEPT ![w] = "dq_check"]
    /\ UNCHANGED <<graph, visited, sum, num_threads, queue, num_tasks, finished,
                   cond_queue, mutex_graph, t, new_task, i, join_i,
                   num_created, hist, adds, num_enqueued, own>>

\* dequeue_task, lines 88-92, and thread_loop_function, lines 115-116 and
\* 121: NULL is returned, the worker leaves its loop and the thread ends.
DequeueNull(w) ==
    /\ pc[w] = "dq_check"
    /\ ~dequeue_must_wait(queue, finished)
    /\ dequeue_no_task(queue, num_tasks, finished)
    /\ mutex_queue' = NoThread
    /\ t' = [t EXCEPT ![w] = NoTask]
    /\ pc' = [pc EXCEPT ![w] = "exit"]
    /\ own' = [own EXCEPT ![w] = {}]
    /\ UNCHANGED <<graph, visited, sum, num_threads, queue, num_tasks, finished,
                   cond_queue, mutex_graph, new_task, i, join_i,
                   num_created, hist, adds, num_enqueued>>

\* dequeue_task, lines 94-103, and thread_loop_function, line 117: the task
\* at head.prev is unlinked and returned, the worker calls its action.
\* Reading head.prev of an empty list yields no task: the worker is lost.
DequeueTake(w) ==
    /\ pc[w] = "dq_check"
    /\ ~dequeue_must_wait(queue, finished)
    /\ ~dequeue_no_task(queue, num_tasks, finished)
    /\ num_tasks' = num_tasks - 1
    /\ t' = [t EXCEPT ![w] = list_tail(queue)]
    /\ queue' = list_del_tail(queue)
    /\ mutex_queue' = dequeue_unlock(w)
    /\ hist' = Bump(hist, list_tail(queue).id, "deq")
    /\ pc' = [pc EXCEPT ![w] = IF list_tail(queue) = Garbage THEN "ub" ELSE "pn_lock"]
    /\ own' = [own EXCEPT ![w] = {}]
    /\ UNCHANGED <<graph, visited, sum, num_threads, finished,
                   cond_queue, mutex_graph, new_task, i, join_i,
                   num_created, adds, num_enqueued>>

\* Faulty destroy_task: the task is freed twice.
destroy_task_twice(h, id) == Bump(Bump(h, id, "destr"), id, "destr")

\* destroy_task: destroy_arg is called on the argument, the task is freed.
destroy_task(h, id) == Bump(h, id, "destr")

\* thread_loop_function, line 118, and the return to the head of the loop.
DestroyTask(w) ==
    /\ pc[w] = "destroy"
    /\ hist' = destroy_task(hist, t[w].id)
    /\ t' = [t EXCEPT ![w] = NoTask]
    /\ pc' = [pc EXCEPT ![w] = "dq_lock"]
    /\ UNCHANGED <<graph, visited, sum, num_threads, queue, num_tasks, finished,
                   mutex_queue, cond_queue, mutex_graph, new_task, i, join_i,
                   num_created, adds, num_enqueued, own>>

\* wait_for_completion, line 127.
WfcLock ==
    /\ pc[Main] = "wfc_lock"
    /\ mutex_queue = NoThread
    /\ mutex_queue' = Main
    /\ pc' = [pc EXCEPT ![Main] = "wfc_body"]
    /\ UNCHANGED <<graph, visited, sum, num_threads, queue, num_tasks, finished,
                   cond_queue, mutex_graph, t, new_task, i, join_i,
                   num_created, hist, adds, num_enqueued, own>>

\* wait_for_completion, lines 130-135.
WfcBody ==
    /\ pc[Main] = "wfc_body"
    /\ finished' = TRUE
    /\ pc' = [cond_broadcast(pc, cond_queue) EXCEPT ![Main] = "wfc_join"]
    /\ cond_queue' = {}
    /\ mutex_queue' = NoThread
    /\ join_i' = 0
    /\ UNCHANGED <<graph, visited, sum, num_threads, queue, num_tasks,
                   mutex_graph, t, new_task, i,
                   num_created, hist, adds, num_enqueued, own>>

\* wait_for_completion, lines 138-139: one pthread_join.
WfcJoin ==
    /\ pc[Main] = "wfc_join"
    /\ join_i < num_threads
    /\ join_returns(pc, join_i + 1)
    /\ join_i' = join_i + 1
    /\ UNCHANGED <<graph, visited, sum, num_threads, queue, num_tasks, finished,
                   mutex_queue, cond_queue, mutex_graph, pc, t, new_task, i,
                   num_created, hist, adds, num_enqueued, own>>

\* wait_for_completion, line 140: the loop is over, the function returns.
WfcReturn ==
    /\ pc[Main] = "wfc_join"
    /\ ~(join_i < num_threads)
    /\ pc' = [pc EXCEPT ![Main] = "destroy_pool"]
    /\ UNCHANGED <<graph, visited, sum, num_threads, queue, num_tasks, finished,
                   mutex_queue, cond_queue, mutex_graph, t, new_task, i, join_i,
                   num_created, hist, adds, num_enqueued, own>>

RECURSIVE DestroyAll(_, _)
DestroyAll(h, q) ==
    IF q = <<>> THEN h ELSE DestroyAll(destroy_task(h, Head(q).id), Tail(q))

\* destroy_threadpool, and main to its end (lines 99-105): the tasks still
\* linked are unlinked and destroyed, sum is printed.
DestroyThreadpool ==
    /\ pc[Main] = "destroy_pool"
    /\ hist' = DestroyAll(hist, queue)
    /\ queue' = <<>>
    /\ pc' = [pc EXCEPT ![Main] = "done"]
    /\ UNCHANGED <<graph, visited, sum, num_threads, num_tasks, finished,
                   mutex_queue, cond_queue, mutex_graph, t, new_task, i, join_i,
                   num_created, adds, num_enqueued, own>>

----------------------------------------------------------------------------
\* parallel.c

\* Faulty process_node: the node is processed whatever its visited flag.
node_always_processed(v, idx) == TRUE

\* process_node, line 37: the test that lets a task process its node.
node_not_visited(v, idx) == v[idx] = "NOT_VISITED"

\* Faulty process_node: the test on the neighbour is inverted.
neighbour_test_inverted(v, nb) == v[nb] = "DONE"

\* process_node, line 45: the test that creates a task for a neighbour.
neighbour_not_visited(v, nb) == v[nb] = "NOT_VISITED"

\* Faulty process_node: the argument of the new task is the loop index.
new_arg_is_index(g, idx, j) == j

\* process_node, line 51: the argument of the new task is neighbour i of
\* the node.
new_arg(g, idx, j) == g.neighbours[idx][j + 1]

\* Faulty process_node: the index of the node is added instead of its value.
sum_add_idx(s, g, idx) == s + idx

\* process_node, lines 38-40: sum += node->info.
sum_add_info(s, g, idx) == s + g.info[idx]

\* process_node, line 34.
ProcessLock(w) ==
    /\ pc[w] = "pn_lock"
    /\ mutex_graph = NoThread
    /\ mutex_graph' = w
    /\ pc' = [pc EXCEPT ![w] = "pn_check"]
    /\ UNCHANGED <<graph, visited, sum, num_threads, queue, num_tasks, finished,
                   mutex_queue, cond_queue, t, new_task, i, join_i,
                   num_created, hist, adds, num_enqueued, own>>

\* process_node, lines 37-44: a node not yet visited is added to sum and
\* marked DONE, and the loop over its neighbours starts.
ProcessVisit(w) ==
    /\ pc[w] = "pn_check"
    /\ node_not_visited(visited, t[w].argument)
    /\ sum' = sum_add_info(sum, graph, t[w].argument)
    /\ visited' = [visited EXCEPT ![t[w].argument] = "DONE"]
    /\ adds' = [adds EXCEPT ![t[w].argument] = @ + 1]
    /\ i' = [i EXCEPT ![w] = 0]
    /\ pc' = [pc EXCEPT ![w] = "pn_loop"]
    /\ UNCHANGED <<graph, num_threads, queue, num_tasks, finished,
                   mutex_queue, cond_queue, mutex_graph, t, new_task, join_i,
                   num_created, hist, num_enqueued, own>>

\* process_node, lines 37 and 60, and the return to thread_loop_function:
\* the node is already DONE, the mutex is unlocked and nothing else is done.
ProcessSkip(w) ==
    /\ pc[w] = "pn_check"
    /\ ~node_not_visited(visited, t[w].argument)
    /\ mutex_graph' = NoThread
    /\ hist' = Bump(hist, t[w].id, "exec")
    /\ pc' = [pc EXCEPT ![w] = "destroy"]
    /\ UNCHANGED <<graph, visited, sum, num_threads, queue, num_tasks, finished,
                   mutex_queue, cond_queue, t, new_task, i, join_i,
                   num_created, adds, num_enqueued, own>>

\* Faulty process_node: the loop index is advanced once too often, so the
\* neighbour at index i is passed over.
NotVisitedAfter(w) ==
    { j \in (i[w] + 1)..(Len(graph.neighbours[t[w].argument]) - 1) :
         neighbour_not_visited(visited, graph.neighbours[t[w].argument][j + 1]) }

\* process_node, lines 44-45: the indices, from i on, of the neighbours of
\* the node that are NOT_VISITED.
NotVisitedFrom(w) ==
    { j \in i[w]..(Len(graph.neighbours[t[w].argument]) - 1) :
         neighbour_not_visited(visited, graph.neighbours[t[w].argument][j + 1]) }

\* process_node, lines 44-55: the loop runs on to the next neighbour that is
\* NOT_VISITED, a task is created for it and enqueue_task is called.
ProcessNeighbour(w) ==
    /\ pc[w] = "pn_loop"
    /\ NotVisitedFrom(w) # {}
    /\ LET j == CHOOSE x \in NotVisitedFrom(w) : \A y \in NotVisitedFrom(w) : x <= y
           nb == new_arg(graph, t[w].argument, j)
       IN /\ i' = [i EXCEPT ![w] = j]
          /\ new_task' = [new_task EXCEPT ![w] = create_task(nb)]
          /\ hist' = Append(hist, NewHist(nb, t[w].argument))
    /\ num_created' = num_created + 1
    /\ pc' = [pc EXCEPT ![w] = "enq_lock"]
    /\ UNCHANGED <<graph, visited, sum, num_threads, queue, num_tasks, finished,
                   mutex_queue, cond_queue, mutex_graph, t, join_i,
                   adds, num_enqueued, own>>

\* process_node, lines 44-45 and 60, and the return to thread_loop_function:
\* no neighbour is left that is NOT_VISITED, the loop ends, the mutex is
\* unlocked and the action of the task has run.
ProcessLoopEnd(w) ==
    /\ pc[w] = "pn_loop"
    /\ NotVisitedFrom(w) = {}
    /\ i' = [i EXCEPT ![w] = 0]
    /\ mutex_graph' = NoThread
    /\ hist' = Bump(hist, t[w].id, "exec")
    /\ pc' = [pc EXCEPT ![w] = "destroy"]
    /\ UNCHANGED <<graph, visited, sum, num_threads, queue, num_tasks, finished,
                   mutex_queue, cond_queue, t, new_task, join_i,
                   num_created, adds, num_enqueued, own>>

\* main, lines 87-96: the task for node 0 is created, enqueue_task is called.
MainSeed ==
    /\ pc[Main] = "main_seed"
    /\ new_task' = [new_task EXCEPT ![Main] = create_task(0)]
    /\ num_created' = num_created + 1
    /\ hist' = Append(hist, NewHist(0, -1))
    /\ pc' = [pc EXCEPT ![Main] = "enq_lock"]
    /\ UNCHANGED <<graph, visited, sum, num_threads, queue, num_tasks, finished,
                   mutex_queue, cond_queue, mutex_graph, t, i, join_i,
                   adds, num_enqueued, own>>

----------------------------------------------------------------------------

Next ==
    \/ MainSeed
    \/ \E th \in Threads : EnqueueLock(th)
    \/ \E th \in Threads : EnqueueBody(th)
    \/ WfcLock
    \/ WfcBody
    \/ WfcJoin
    \/ WfcReturn
    \/ DestroyThreadpool
    \/ \E w \in Workers : DequeueLock(w)
    \/ \E w \in Workers : DequeueWait(w)
    \/ \E w \in Workers : SpuriousWakeup(w)
    \/ \E w \in Workers : CondWaitRelock(w)
    \/ \E w \in Workers : DequeueNull(w)
    \/ \E w \in Workers : DequeueTake(w)
    \/ \E w \in Workers : ProcessLock(w)
    \/ \E w \in Workers : ProcessVisit(w)
    \/ \E w \in Workers : ProcessSkip(w)
    \/ \E w \in Workers : ProcessNeighbour(w)
    \/ \E w \in Workers : ProcessLoopEnd(w)
    \/ \E w \in Workers : DestroyTask(w)

Spec == Init /\ [][Next]_vars

SpecLifo == InitLifo /\ [][Next]_vars

\* The steps of a thread that acquire a mutex.
LockStep(th) ==
    /\ th \in Threads
    /\ \/ EnqueueLock(th)
       \/ th = Main /\ WfcLock
       \/ th # Main /\ (DequeueLock(th) \/ CondWaitRelock(th) \/ ProcessLock(th))

\* The other steps of a thread, the spurious wake-up excepted.
RunStep(th) ==
    /\ th \in Threads
    /\ \/ EnqueueBody(th)
       \/ th = Main /\ (MainSeed \/ WfcBody \/ WfcJoin \/ WfcReturn \/ DestroyThreadpool)
       \/ th # Main /\ (\/ DequeueWait(th) \/ DequeueNull(th) \/ DequeueTake(th)
                        \/ ProcessVisit(th) \/ ProcessSkip(th) \/ ProcessNeighbour(th)
                        \/ ProcessLoopEnd(th) \/ DestroyTask(th))

\* Fair scheduling: a thread that can run does run, and a thread that asks
\* for a mutex that is free again and again gets it.  Nothing makes a
\* spurious wake-up happen.
Fairness ==
    \A th \in 0..MaxThreads : WF_vars(RunStep(th)) /\ SF_vars(LockStep(th))

LiveSpec == Init /\ [][Next]_vars /\ Fairness

----------------------------------------------------------------------------
\* Definitions used by the properties.

\* The nodes reachable from node 0 along the neighbour lists.
RECURSIVE ReachFrom(_)
ReachFrom(S) ==
    LET T == S \cup { v \in Nodes : \E u \in S : \E k \in 1..Len(graph.neighbours[u]) :
                                       graph.neighbours[u][k] = v }
    IN IF T = S THEN S ELSE ReachFrom(T)

Reachable == ReachFrom({0})

RECURSIVE SumInfo(_)
SumInfo(S) ==
    IF S = {} THEN 0
    ELSE LET n == CHOOSE x \in S : TRUE IN graph.info[n] + SumInfo(S \ {n})

TaskIds == DOMAIN hist

\* wait_for_completion has returned.
Completed == pc[Main] \in {"destroy_pool", "done"}

AllExited == \A w \in Workers : pc[w] = "exit"

\* The worker holds a dequeued task whose action has not returned.
InFlight(w) == pc[w] \in {"pn_lock", "pn_check", "pn_loop", "enq_lock", "enq_body"}

QueueIds == { queue[k].id : k \in 1..Len(queue) }

\* The thread is blocked in pthread_mutex_lock on a mutex that is held.
BlockedOnLock(th) ==
    \/ pc[th] \in {"enq_lock", "dq_lock", "dq_relock", "wfc_lock"} /\ mutex_queue # NoThread
    \/ pc[th] = "pn_lock" /\ mutex_graph # NoThread

Live(th) == pc[th] \notin {"exit", "done"}

----------------------------------------------------------------------------
\* C1: once wait_for_completion has returned, every node reachable from
\* node 0 is DONE and sum is the sum of the values of exactly the reachable
\* nodes, whatever the interleaving and the number of workers.
C1_FinalSum ==
    Completed =>
        /\ \A n \in Reachable : visited[n] = "DONE"
        /\ sum = SumInfo(Reachable)

C1_Witness ==
    /\ pc[Main] = "done"
    /\ num_threads >= 2
    /\ Cardinality(Reachable) >= 2
    /\ Reachable # Nodes
    /\ sum = SumInfo(Reachable)

\* No task is enqueued or returned twice, a task is held
\* by at most one worker, a task is returned only after it was enqueued, and
\* once all workers have exited the queue is empty and every task enqueued
\* was dequeued.
C2_Safe ==
    /\ \A id \in TaskIds :
          /\ hist[id].enq <= 1
          /\ hist[id].deq <= hist[id].enq
          /\ Cardinality({ w \in Workers : t[w].id = id }) <= 1
          /\ Cardinality({ k \in 1..Len(queue) : queue[k].id = id }) <= 1
          /\ (id \in QueueIds => hist[id].enq = 1 /\ hist[id].deq = 0)
    /\ AllExited =>
          /\ queue = <<>>
          /\ \A id \in TaskIds : hist[id].enq = 1 => hist[id].deq = 1

C2_Witness ==
    /\ AllExited
    /\ num_threads >= 2
    /\ Cardinality(TaskIds) >= 3
    /\ \A id \in TaskIds : hist[id].enq = 1 /\ hist[id].deq = 1
    /\ \E a, b \in TaskIds : a # b /\ hist[a].arg = hist[b].arg

\* C2: every enqueued task is returned by dequeue_task to exactly one worker:
\* the safety part above holds, and no task stays linked forever.
C2_NoTaskLostOrDuplicated ==
    /\ []C2_Safe
    /\ \A id \in 1..(MaxEdges + 1) : (id \in QueueIds) ~> (id \notin QueueIds)

\* C3: dequeue_task returns NULL only when, under the queue lock, the queue
\* is empty and finished is set; a worker that finds finished set and the
\* queue non-empty unlinks and returns the task at head.prev.
C3_NullOnlyWhenEmptyAndFinished ==
    [][\A w \in Workers :
          /\ (pc[w] = "dq_check" /\ pc'[w] = "exit") =>
                (queue = <<>> /\ finished /\ mutex_queue = w)
          /\ (pc[w] = "dq_check" /\ pc'[w] # "dq_check" /\ finished /\ queue # <<>>) =>
                (/\ pc'[w] = "pn_lock"
                 /\ t'[w] = queue[Len(queue)]
                 /\ Len(queue') = Len(queue) - 1)]_vars

C3_Witness ==
    \E w, w2 \in Workers :
        /\ pc[w] = "dq_check"
        /\ mutex_queue = w
        /\ finished
        /\ queue # <<>>
        /\ pc[w2] = "exit"

\* wait_for_completion returns only after every worker has left its
\* loop; from then on the queue is empty, num_tasks is 0, no worker holds a
\* task, and sum and the visited flags no longer change.
C4_AfterReturn ==
    Completed =>
        /\ AllExited
        /\ queue = <<>>
        /\ num_tasks = 0
        /\ \A w \in Workers : t[w] = NoTask /\ ~InFlight(w)

\* C4: the state described above holds whenever wait_for_completion has
\* returned, and no step taken after the return changes sum or a visited flag.
C4_WaitForCompletion ==
    /\ []C4_AfterReturn
    /\ [][Completed => (sum' = sum /\ visited' = visited)]_vars

C4_Witness ==
    /\ pc[Main] = "destroy_pool"
    /\ num_threads >= 2
    /\ Cardinality(TaskIds) >= 3
    /\ AllExited

\* The worker is inside the pthread_cond_wait of dequeue_task.
InCondWait(w) == w \in Workers /\ pc[w] \in {"dq_wait", "dq_relock"}

\* C5: under fair scheduling main reaches the end and every worker exits; a
\* worker inside the wait of dequeue_task while the queue is non-empty or
\* finished is set leaves the wait; a live worker that is neither in that
\* wait nor asking for a held mutex can take a step.
C5_Termination ==
    /\ <>[](pc[Main] = "done" /\ AllExited)
    /\ \A w \in 1..MaxThreads :
          (InCondWait(w) /\ (queue # <<>> \/ finished)) ~> (w \in Workers /\ ~InCondWait(w))
    /\ [](\A w \in Workers :
             (Live(w) /\ pc[w] # "dq_wait" /\ ~BlockedOnLock(w)) =>
                 ENABLED (RunStep(w) \/ LockStep(w)))

C5_Witness ==
    /\ pc[Main] = "done"
    /\ AllExited
    /\ num_threads >= 2
    /\ Cardinality(TaskIds) >= 3
    /\ finished

\* C6: a worker gets NULL from dequeue_task only once work is complete: after
\* a worker has left its loop no task becomes available any more.
C6_NoTaskAfterNull ==
    \A w \in Workers : pc[w] = "exit" => queue = <<>>

\* The value of a node is added to sum at most once, exactly when the node is
\* marked DONE, and at most one task is created for each edge.
C8_AtMostOnce ==
    /\ \A n \in Nodes : adds[n] <= 1 /\ (visited[n] = "DONE" <=> adds[n] = 1)
    /\ \A a, b \in TaskIds :
          (hist[a].parent = hist[b].parent /\ hist[a].arg = hist[b].arg) => a = b

\* C8: in every interleaving the value of a node is added to sum at most
\* once and a task is created at most once for each of its edges;
\* process_node on a DONE node leaves sum, the visited flags and the queue as
\* they are; a DONE node stays DONE.
C8_ProcessOnce ==
    /\ []C8_AtMostOnce
    /\ [][/\ \A n \in Nodes : visited[n] = "DONE" => visited'[n] = "DONE"
          /\ \A w \in Workers :
                (pc[w] = "pn_check" /\ visited[t[w].argument] = "DONE" /\ pc'[w] # "pn_check") =>
                    (/\ pc'[w] = "destroy"
                     /\ sum' = sum
                     /\ visited' = visited
                     /\ queue' = queue
                     /\ num_created' = num_created)]_vars

\* Two workers hold a task for the same node at the same time, the action
\* of both has run and the value of the node was added once.
C8_Witness ==
    \E w1, w2 \in Workers :
        /\ w1 # w2
        /\ pc[w1] = "destroy"
        /\ pc[w2] = "destroy"
        /\ t[w1].argument = t[w2].argument
        /\ adds[t[w1].argument] = 1

\* C9 as stated: no thread ever holds the queue lock and the graph lock at
\* the same time.
C9_NeverNested ==
    \A th \in Threads : ~(mutex_queue = th /\ mutex_graph = th)

\* C9 as amended: the graph lock is never acquired by a thread that holds
\* the queue lock; the two locks are held together only by a worker that is
\* inside the enqueue_task call of process_node.
C9_NestedOnlyInEnqueue ==
    /\ [](\A th \in Threads :
             (mutex_queue = th /\ mutex_graph = th) => (th # Main /\ pc[th] = "enq_body"))
    /\ [][\A th \in Threads :
             (mutex_graph' = th /\ mutex_graph # th) => mutex_queue # th]_vars

C9_Witness ==
    \E w \in Workers : mutex_queue = w /\ mutex_graph = w /\ finished

\* C10: the graph lock is never requested by a thread holding the queue
\* lock; the queue lock is held only inside enqueue_task, dequeue_task and
\* wait_for_completion; a worker waiting on the condition variable holds
\* neither lock; in no state is every live thread blocked on a held lock.
C10_NoDeadlock ==
    /\ \A th \in Threads : pc[th] = "pn_lock" => mutex_queue # th
    /\ \A th \in Threads : mutex_queue = th => pc[th] \in {"enq_body", "dq_check", "wfc_body"}
    /\ \A w \in Workers :
          pc[w] = "dq_wait" => (mutex_queue # w /\ mutex_graph # w /\ w \in cond_queue)
    /\ ~(/\ \E th \in Threads : Live(th)
         /\ \A th \in Threads : Live(th) => BlockedOnLock(th))

C10_Witness ==
    \E w1, w2 \in Workers :
        /\ pc[w1] = "dq_wait"
        /\ mutex_graph = w2
        /\ mutex_queue = w2
        /\ BlockedOnLock(Main)

C11_UnreachableUntouched ==
    \A n \in Nodes \ Reachable :
        /\ visited[n] = "NOT_VISITED"
        /\ adds[n] = 0
        /\ \A id \in TaskIds : hist[id].arg # n
        /\ \A th \in Threads : t[th].argument # n /\ new_task[th].argument # n
        /\ \A k \in 1..Len(queue) : queue[k].argument # n
        /\ sum <= SumInfo(Reachable)

\* The run is over with two workers; a node that is not reachable has an
\* edge to a reachable node other than node 0, and that node was processed.
C11_Witness ==
    /\ pc[Main] = "done"
    /\ num_threads >= 2
    /\ \E n \in Nodes \ Reachable : \E k \in 1..Len(graph.neighbours[n]) :
          /\ graph.neighbours[n][k] \in Reachable \ {0}
          /\ visited[graph.neighbours[n][k]] = "DONE"

\* C12: setting finished cancels nothing: a task that was dequeued has its
\* action run to its end; while finished is set a worker running an action
\* goes on running it and enqueue_task still links the task it is given; a
\* task linked while finished is set is dequeued and executed.
C12_NoCancellation ==
    /\ \A id \in 1..(MaxEdges + 1) :
          (id \in TaskIds /\ hist[id].deq = 1) ~> (id \in TaskIds /\ hist[id].exec = 1)
    /\ [][\A th \in Threads :
             /\ (finished /\ pc[th] = "enq_body" /\ pc'[th] # "enq_body") =>
                    (/\ queue' = Append(queue, new_task[th])
                     /\ num_tasks' = num_tasks + 1)
             /\ (finished /\ th # Main /\ InFlight(th)) =>
                    \/ pc'[th] \in {"pn_lock", "pn_check", "pn_loop", "enq_lock", "enq_body"}
                    \/ pc'[th] = "destroy" /\ hist'[t[th].id].exec = 1]_vars
    /\ \A id \in 1..(MaxEdges + 1) :
          (finished /\ id \in QueueIds) ~>
              (id \in TaskIds /\ hist[id].deq = 1 /\ hist[id].exec = 1)

\* A worker has got NULL and left (finished is set, the queue was empty
\* then); another worker is still running the action of a task and the
\* follow-up task it has enqueued since is linked in the queue.
C12_Witness ==
    \E w, w2 \in Workers :
        /\ pc[w2] = "exit"
        /\ finished
        /\ pc[w] = "pn_loop"
        /\ i[w] >= 1
        /\ \E id \in QueueIds : hist[id].parent = t[w].argument

\* C13: num_tasks is the number of tasks linked in the queue in every state
\* in which the queue lock is free or has just been acquired, that is at
\* every acquisition and release of the lock; a step that changes num_tasks
\* or the list is taken by the thread that holds the queue lock, inside
\* enqueue_task or dequeue_task; num_tasks is decremented only when it is
\* positive and is never negative.
C13_CountMatchesList ==
    /\ [](num_tasks = Len(queue) /\ num_tasks >= 0)
    /\ [][/\ (queue' # queue \/ num_tasks' # num_tasks) =>
                \E th \in Threads :
                    /\ mutex_queue = th
                    /\ pc[th] \in {"enq_body", "dq_check"}
                    /\ pc'[th] # pc[th]
          /\ num_tasks' < num_tasks => (num_tasks > 0 /\ num_tasks' = num_tasks - 1)
          /\ (mutex_queue' # mutex_queue) =>
                (num_tasks = Len(queue) /\ num_tasks' = Len(queue'))]_vars

\* A worker has just acquired the queue lock in dequeue_task; two tasks are
\* linked, another one was dequeued before, and the other worker is still
\* running the action that enqueued them.
C13_Witness ==
    \E w, w2 \in Workers :
        /\ mutex_queue = w
        /\ pc[w] = "dq_check"
        /\ num_tasks = 2
        /\ Len(queue) = 2
        /\ \E id \in TaskIds : hist[id].deq = 1
        /\ pc[w2] = "pn_loop"
        /\ mutex_graph = w2

\* The counters of a task are ordered as its lifecycle is: it is enqueued,
\* dequeued, executed and destroyed at most once, each only after the step
\* before; a task about to be enqueued was not enqueued yet, a linked task
\* was not dequeued, a task held by a worker was dequeued by it alone and is
\* not destroyed.
C14_Ordered ==
    \A id \in TaskIds :
        /\ hist[id].enq <= 1
        /\ hist[id].deq <= hist[id].enq
        /\ hist[id].exec <= hist[id].deq
        /\ hist[id].destr <= hist[id].exec
        /\ \A th \in Threads : new_task[th].id = id => hist[id].enq = 0
        /\ id \in QueueIds => (hist[id].enq = 1 /\ hist[id].deq = 0)
        /\ \A w \in Workers :
              t[w].id = id =>
                 /\ hist[id].deq = 1
                 /\ hist[id].destr = 0
                 /\ \A w2 \in Workers : t[w2].id = id => w2 = w
                 /\ (hist[id].exec = 1 <=> pc[w] = "destroy")

\* C14: the counters of every task stay ordered as above; the action of a
\* task is run by the worker that dequeued it and the task is destroyed by
\* that worker after the action has returned; under fair scheduling every
\* task created is enqueued, dequeued, executed and destroyed, once each.
C14_Lifecycle ==
    /\ []C14_Ordered
    /\ [][\A id \in TaskIds :
             /\ hist'[id].exec # hist[id].exec =>
                    \E w \in Workers :
                        /\ t[w].id = id /\ InFlight(w)
                        /\ pc'[w] = "destroy" /\ t'[w] = t[w]
             /\ hist'[id].destr # hist[id].destr =>
                    \E w \in Workers :
                        /\ t[w].id = id /\ pc[w] = "destroy"
                        /\ hist[id].exec = 1
                        /\ t'[w] = NoTask]_vars
    /\ \A id \in 1..(MaxEdges + 1) :
          (id \in TaskIds) ~>
              (/\ id \in TaskIds
               /\ hist[id].enq = 1 /\ hist[id].deq = 1
               /\ hist[id].exec = 1 /\ hist[id].destr = 1)

\* The run is over with two workers: four tasks were created, two of them
\* for the same node, and each was enqueued, dequeued, executed and
\* destroyed once.
C14_Witness ==
    /\ pc[Main] = "done"
    /\ num_threads >= 2
    /\ Cardinality(TaskIds) = 4
    /\ \A id \in TaskIds :
          /\ hist[id].enq = 1 /\ hist[id].deq = 1
          /\ hist[id].exec = 1 /\ hist[id].destr = 1
    /\ \E a, b \in TaskIds : a # b /\ hist[a].arg = hist[b].arg

\* C15 as stated: a worker that enqueued tasks in the action it ran last
\* finds, when it checks the queue in its next dequeue_task call, the task
\* it enqueued last still linked, and dequeue_task does not return NULL to it.
C15_ObservesOwnTask ==
    [][\A w \in Workers :
          (pc[w] = "dq_check" /\ own[w] # {}) =>
              /\ \E id \in own[w] : id \in QueueIds /\ \A o \in own[w] : o <= id
              /\ pc'[w] # "exit"]_vars

\* C15 as amended: a task a worker enqueued is linked or was dequeued; in
\* its next dequeue_task call the worker gets NULL only if every task it
\* enqueued in its last action was dequeued by another worker, and gets a
\* task if one of them is still linked; with one worker all of them are
\* still linked and the one enqueued last is the task returned.
C15_OwnTaskNotMissed ==
    /\ [](\A w \in Workers : \A id \in own[w] :
              /\ hist[id].enq = 1
              /\ id \in QueueIds \/ hist[id].deq = 1
              /\ \A th \in Threads : t[th].id = id => th # w)
    /\ [](\A w \in Workers :
              (num_threads = 1 /\ pc[w] = "dq_check") => own[w] \subseteq QueueIds)
    /\ [][\A w \in Workers :
              /\ (pc[w] = "dq_check" /\ pc'[w] = "exit") =>
                     \A id \in own[w] : id \notin QueueIds /\ hist[id].deq = 1
              /\ (pc[w] = "dq_check" /\ pc'[w] # "dq_check" /\ own[w] \cap QueueIds # {}) =>
                     (pc'[w] = "pn_lock" /\ t'[w].id \in QueueIds)
              /\ (num_threads = 1 /\ pc[w] = "dq_check" /\ pc'[w] # "dq_check" /\ own[w] # {}) =>
                     (t'[w].id \in own[w] /\ \A o \in own[w] : o <= t'[w].id)]_vars

\* Two workers; finished is set; a worker that enqueued two tasks in its
\* last action holds the queue lock in its next dequeue_task call and finds
\* the queue empty: the other worker has dequeued both.
C15_Witness ==
    \E w \in Workers :
        /\ num_threads >= 2
        /\ pc[w] = "dq_check"
        /\ mutex_queue = w
        /\ finished
        /\ Cardinality(own[w]) = 2
        /\ queue = <<>>
        /\ \A id \in own[w] : hist[id].deq = 1

\* C16: while a task is linked in the queue or a worker is running the
\* action of a task, some worker has not left its loop; the worker that
\* leaves last does so with the queue empty and no action running.
C16_NoTaskStranded ==
    /\ []((queue # <<>> \/ \E w \in Workers : InFlight(w)) =>
              \E w \in Workers : pc[w] # "exit")
    /\ [][\A w \in Workers :
              (/\ pc[w] # "exit" /\ pc'[w] = "exit"
               /\ \A w2 \in Workers \ {w} : pc[w2] = "exit") =>
                  (/\ queue = <<>> /\ queue' = <<>>
                   /\ \A w2 \in Workers : ~InFlight(w2) /\ t'[w2] = NoTask
                   /\ \A id \in TaskIds : hist[id].exec = 1)]_vars

\* One worker has left its loop early: the other one is running the action
\* of a task and two tasks are linked in the queue.
C16_Witness ==
    \E w, w2 \in Workers :
        /\ pc[w2] = "exit"
        /\ InFlight(w)
        /\ Len(queue) = 2

\* A task for node v is pending: it is linked in the queue, or a worker has
\* dequeued it and has not returned from process_node.
PendingFor(v) ==
    \/ \E k \in 1..Len(queue) : queue[k].argument = v
    \/ \E w \in Workers : InFlight(w) /\ t[w].argument = v

\* Every edge from a DONE node to a NOT_VISITED node has a pending task for
\* its target.
FrontierPending ==
    \A u \in Nodes : \A k \in 1..Len(graph.neighbours[u]) :
        (visited[u] = "DONE" /\ visited[graph.neighbours[u][k]] = "NOT_VISITED") =>
            PendingFor(graph.neighbours[u][k])

\* C17 as stated: whenever the graph lock is free, every edge from a DONE
\* node to a NOT_VISITED node has a pending task for its target, and node 0
\* has a pending task as long as it is NOT_VISITED.
C17_PendingTasks ==
    mutex_graph = NoThread =>
        /\ FrontierPending
        /\ visited[0] = "NOT_VISITED" => PendingFor(0)

\* C17 as amended: the same, node 0 having a pending task from the moment
\* main has enqueued the initial task; until then main is on its way to
\* enqueue it.
C17_PendingOnceSeeded ==
    mutex_graph = NoThread =>
        /\ FrontierPending
        /\ (visited[0] = "NOT_VISITED" /\ num_enqueued >= 1) => PendingFor(0)
        /\ (visited[0] = "NOT_VISITED" /\ num_enqueued = 0) =>
               pc[Main] \in {"main_seed", "enq_lock", "enq_body"}

\* The graph lock is free, finished is set, node u is DONE and its
\* neighbour v is NOT_VISITED; the only pending task for v is held by a
\* worker that is about to call process_node, and another NOT_VISITED
\* neighbour of a DONE node has its task linked in the queue.
C17_Witness ==
    /\ mutex_graph = NoThread
    /\ finished
    /\ \E u \in Nodes : \E k \in 1..Len(graph.neighbours[u]) :
          LET v == graph.neighbours[u][k]
          IN /\ visited[u] = "DONE"
             /\ visited[v] = "NOT_VISITED"
             /\ \A l \in 1..Len(queue) : queue[l].argument # v
             /\ \E w \in Workers : pc[w] = "pn_lock" /\ t[w].argument = v
    /\ \E l \in 1..Len(queue) : visited[queue[l].argument] = "NOT_VISITED"

\* C18: whenever the graph lock is free, sum is the sum of the values of
\* the nodes marked DONE (the value of node n is 2^n, so of exactly those
\* nodes).
C18_SumOfDone ==
    mutex_graph = NoThread =>
        sum = SumInfo({ n \in Nodes : visited[n] = "DONE" })

\* The graph lock is free in the middle of a run with two workers: two
\* nodes are DONE, a reachable node is not, and a task is still linked.
C18_Witness ==
    /\ mutex_graph = NoThread
    /\ num_threads >= 2
    /\ Cardinality({ n \in Nodes : visited[n] = "DONE" }) = 2
    /\ \E n \in Reachable : visited[n] = "NOT_VISITED"
    /\ queue # <<>>
    /\ sum > 0

\* The edges of the graph that leave a node of S.
EdgesFrom(S) ==
    UNION { { <<u, graph.neighbours[u][k]>> : k \in 1..Len(graph.neighbours[u]) } : u \in S }

InDegree(v) == Cardinality({ e \in EdgesFrom(Nodes) : e[2] = v })

\* C19: the number of tasks created, and so of tasks enqueued and of tasks
\* linked at one time, is at most 1 plus the number of edges that leave a
\* node reachable from node 0; the number of tasks created for a node is at
\* most its in-degree, plus one for node 0; a node is expanded at most once.
C19_BoundedWork ==
    /\ num_created <= 1 + Cardinality(EdgesFrom(Reachable))
    /\ num_enqueued <= num_created
    /\ Len(queue) <= num_enqueued
    /\ \A v \in Nodes :
          Cardinality({ id \in TaskIds : hist[id].arg = v }) <=
              InDegree(v) + (IF v = 0 THEN 1 ELSE 0)
    /\ \A v \in Nodes : adds[v] <= 1
    /\ \A id \in TaskIds :
          hist[id].parent # -1 =>
              (/\ <<hist[id].parent, hist[id].arg>> \in EdgesFrom(Reachable)
               /\ adds[hist[id].parent] = 1)

\* The run is over with two workers and the bound was met: a task was
\* enqueued for node 0 and for each edge leaving a reachable node, none for
\* the edges leaving a node that is not reachable.
C19_Witness ==
    /\ pc[Main] = "done"
    /\ num_threads >= 2
    /\ Cardinality(EdgesFrom(Reachable)) >= 1
    /\ num_enqueued = 1 + Cardinality(EdgesFrom(Reachable))
    /\ EdgesFrom(Nodes) # EdgesFrom(Reachable)
====
